---- MODULE Spec2Model ----
(***************************************************************************)
(* cargo set-version: the propagation driver `exec` of                     *)
(* src/bin/set-version/set_version.rs, as a state machine.                 *)
(*                                                                         *)
(* One invocation walks the in-scope packages; for each package that the   *)
(* version resolver bumps it rewrites the package's own manifest and then  *)
(* scans every workspace member for path dependencies on it.               *)
(***************************************************************************)
EXTENDS Integers, Sequences, FiniteSets, TLC

(***************************************************************************)
(* Bounds of the model.                                                    *)
(***************************************************************************)
\* the number of dependency entries in the whole workspace
MaxEntries == 2

(***************************************************************************)
(* Option / Result values.                                                 *)
(***************************************************************************)
None == [tag |-> "None"]
Some(v) == [tag |-> "Some", val |-> v]
Err == [tag |-> "Err"]

(***************************************************************************)
(* The workspace on disk: three packages in sibling directories, a         *)
(* symbolic link to one of them, and nothing else.                         *)
(***************************************************************************)
Names == {"a", "b", "c"}

\* the directory of a package's manifest (manifest_path.parent())
ManifestDir(n) == <<"ws", n>>

Dirs == {<<"ws">>} \cup {ManifestDir(n) : n \in Names}

\* /ws/lnk is a symbolic link to /ws/a
Symlinks == {<<"ws", "lnk">>}
LinkTarget(p) == ManifestDir("a")

\* Path::join: an absolute right-hand side replaces the left-hand side
Join(dir, rel) ==
    IF rel # <<>> /\ Head(rel) = "/" THEN Tail(rel) ELSE dir \o rel

\* front of a sequence (Path::parent of a resolved directory)
Parent(p) == IF p = <<>> THEN <<>> ELSE SubSeq(p, 1, Len(p) - 1)

\* canonicalize walks the path one component at a time: every prefix must
\* exist, symbolic links are followed, ".." goes to the parent.
RECURSIVE Walk(_, _)
Walk(cur, rest) ==
    IF rest = <<>> THEN Some(cur)
    ELSE LET h == Head(rest) IN
         IF h = ".." THEN Walk(Parent(cur), Tail(rest))
         ELSE IF h = "." THEN Walk(cur, Tail(rest))
         ELSE LET child == Append(cur, h) IN
              IF child \in Symlinks THEN Walk(LinkTarget(child), Tail(rest))
              ELSE IF child \in Dirs THEN Walk(child, Tail(rest))
              ELSE Err

\* dunce::canonicalize of an absolute path
Canonicalize(path) == Walk(<<>>, path)

(***************************************************************************)
(* Versions and requirement strings.                                       *)
(* A version is <<major, minor, patch>>.  A requirement string is the      *)
(* sequence of its tokens, e.g. "=1.2.3" is <<"=", "1", "2", "3">>.        *)
(***************************************************************************)
Digits == {"0", "1", "2", "3", "4", "5", "6", "7", "8", "9"}
DigitVal(t) ==
    CASE t = "0" -> 0 [] t = "1" -> 1 [] t = "2" -> 2 [] t = "3" -> 3
      [] t = "4" -> 4 [] t = "5" -> 5 [] t = "6" -> 6 [] t = "7" -> 7
      [] t = "8" -> 8 [] t = "9" -> 9
DigitStr(n) == CHOOSE t \in Digits : DigitVal(t) = n

Ops == {"=", "^", "~"}

\* VersionReq::parse: an optional operator, then one to three numbers;
\* "*" alone is the wildcard.  Anything else is malformed.
ParseReq(s) ==
    IF s = <<"*">> THEN Some([op |-> "*", bare |-> TRUE, parts |-> <<>>])
    ELSE IF s = <<>> THEN Err
    ELSE LET hasOp == Head(s) \in Ops
             op == IF hasOp THEN Head(s) ELSE "^"
             ds == IF hasOp THEN Tail(s) ELSE s
         IN IF Len(ds) \in 1..3 /\ \A x \in 1..Len(ds) : ds[x] \in Digits
            THEN Some([op |-> op, bare |-> ~hasOp,
                       parts |-> [x \in 1..Len(ds) |-> DigitVal(ds[x])]])
            ELSE Err

\* the requirement already names version v: the wildcard, or every
\* component it states is v's.  ("1.2" is rewritten to "1.3" when the
\* package goes from 1.2.3 to 1.3.0, so a requirement that merely admits
\* the new version is not left alone.)
Matches(req, v) ==
    \/ req.op = "*"
    \/ \A x \in 1..Len(req.parts) : v[x] = req.parts[x]

\* the requirement text in the style of req, for version v cut to as many
\* components as req had
RenderReq(req, v) ==
    LET body == [x \in 1..Len(req.parts) |-> DigitStr(v[x])]
    IN IF req.bare THEN body ELSE <<req.op>> \o body

\* cargo_edit::upgrade_requirement(old_req, version)
UpgradeRequirement(old_req, v) ==
    LET r == ParseReq(old_req) IN
    IF r.tag = "Err" THEN Err
    ELSE IF Matches(r.val, v) THEN None
    ELSE Some(RenderReq(r.val, v))

\* TargetVersion::bump(current, metadata)
Bump(t, current) ==
    CASE t.kind = "Absolute" ->
            IF t.version = current THEN None ELSE Some(t.version)
      [] t.kind = "Relative" /\ t.level = "major" ->
            Some(<<current[1] + 1, 0, 0>>)
      [] t.kind = "Relative" /\ t.level = "minor" ->
            Some(<<current[1], current[2] + 1, 0>>)
      [] t.kind = "Relative" /\ t.level = "patch" ->
            Some(<<current[1], current[2], current[3] + 1>>)

(***************************************************************************)
(* Manifest documents.  A manifest is its package version and the          *)
(* entries of its dependency tables, flattened in iteration order.  A      *)
(* value of a key is absent, a string, or something that is not a string.  *)
(***************************************************************************)
Absent == [t |-> "absent", s |-> <<>>]
Other == [t |-> "other", s |-> <<>>]
Str(s) == [t |-> "str", s |-> s]

\* d.as_table_like_mut(): a plain `name = "req"` entry is not table-like
Entry(n, tbl, ver, path) ==
    [name |-> n, tbl |-> tbl, version |-> ver, path |-> path]

PathTo(n) == Str(<<"..", n>>)

\* entries of the workspaces that exercise the driver
DriverEntries ==
    { Entry("a", TRUE, Str(<<"1", "2">>), PathTo("a")),
      Entry("b", TRUE, Str(<<"1">>), PathTo("b")) }

\* entries of the workspaces that exercise the matcher and the upgrader
MatcherList ==
    << Entry("a", TRUE, Str(<<"1", "2">>), PathTo("a")),
       Entry("b", TRUE, Str(<<"1">>), PathTo("b")),
       Entry("a", TRUE, Str(<<"1", "x">>), PathTo("a")),
       Entry("a", TRUE, Str(<<"1", "2">>), Absent),
       Entry("x", TRUE, Str(<<"~", "1", "2">>), PathTo("lnk")),
       Entry("a", TRUE, Str(<<"=", "1", "3", "0">>), PathTo("b")),
       Entry("a", TRUE, Str(<<"=", "1", "2", "3">>), PathTo("a")),
       Entry("a", TRUE, Absent, PathTo("a")),
       Entry("a", TRUE, Str(<<"1", "x">>), PathTo("zz")),
       Entry("a", TRUE, Str(<<"1", "2">>), Other),
       Entry("c", TRUE, Other, PathTo("a")),
       Entry("a", FALSE, Str(<<"1", "2">>), Absent),
       Entry("a", TRUE, Str(<<"*">>), Str(<<"/", "ws", "a">>)) >>

MatcherEntries == { MatcherList[x] : x \in DOMAIN MatcherList }

\* the entries of a member are distinct, in the order of the list or in
\* the reverse order
Monotone(s) ==
    \/ \A x \in 1..(Len(s) - 1) : s[x] < s[x + 1]
    \/ \A x \in 1..(Len(s) - 1) : s[x] > s[x + 1]

SeqsUpTo(S, n) == UNION {[1..m -> S] : m \in 0..n}

\* the versions cargo metadata reports at the start
InitialVersion(n) == IF n = "b" THEN <<1, 3, 0>> ELSE <<1, 2, 3>>

Workspace(deps) ==
    [n \in Names |-> [version |-> InitialVersion(n), deps |-> deps[n]]]

TotalDeps(deps) == Len(deps["a"]) + Len(deps["b"]) + Len(deps["c"])

\* entries spread over the members
DriverWorkspaces ==
    { Workspace(deps) :
        deps \in { d \in [Names -> SeqsUpTo(DriverEntries, MaxEntries)] :
                     TotalDeps(d) <= MaxEntries } }

\* all entries in the last member
MatcherWorkspaces ==
    { Workspace([n \in Names |->
                    IF n = "c" THEN [x \in DOMAIN s |-> MatcherList[s[x]]]
                    ELSE <<>>]) :
        s \in { t \in SeqsUpTo(DOMAIN MatcherList, MaxEntries) : Monotone(t) } }

Targets ==
    { [kind |-> "Absolute", version |-> <<1, 3, 0>>, level |-> "none"],
      [kind |-> "Relative", version |-> <<0, 0, 0>>, level |-> "major"] }

\* the driver is exercised with the target that bumps every package
DriverTargets == { t \in Targets : t.kind = "Relative" }

Perms(S) ==
    { p \in [1..Cardinality(S) -> S] :
        \A x, y \in 1..Cardinality(S) : x # y => p[x] # p[y] }

\* resolve_manifests: the one selected package, or the whole workspace
Scopes == { <<n>> : n \in Names } \cup Perms(Names)

\* workspace_members(): every member, in metadata order
workspace_members == <<"a", "b", "c">>

(***************************************************************************)
(* State.                                                                  *)
(***************************************************************************)
VARIABLES
    disk,          \* the manifest files: name -> document
    dry_run,       \* args.dry_run
    target,        \* TargetVersion
    manifests,     \* the packages in scope, in order
    exclude,       \* args.exclude
    packages,      \* package.version of the metadata, read once
    pc,            \* position in exec
    i,             \* index of `package` in manifests
    next,          \* the resolver's answer for the current package
    crate_root,    \* canonical directory of the current package
    j,             \* index of `member` in workspace_members
    dep_manifest,  \* the member's document in memory
    k,             \* index of `dep` in the member's entries
    changed,       \* the member's dirty flag
    shell,         \* status and warning messages, in order
    trace,         \* history: resolver calls, loads, writes, upgrader calls
    disk0,         \* history: disk at the start of the invocation
    pkg_disk,      \* history: disk when the current package was picked
    prev           \* history: the invocation before this one, if any

vars == <<disk, dry_run, target, manifests, exclude, packages, pc, i, next,
          crate_root, j, dep_manifest, k, changed, shell, trace, disk0,
          pkg_disk, prev>>

\* what no step of an invocation changes
args == <<dry_run, target, manifests, exclude, packages, disk0, prev>>

NoManifest == [version |-> <<0, 0, 0>>, deps |-> <<>>]

Args(d, t, ms, ex, ws) ==
    /\ dry_run = d
    /\ target = t
    /\ manifests = ms
    /\ exclude = ex
    /\ disk = ws
    /\ disk0 = ws
    /\ pkg_disk = ws
    /\ packages = [n \in Names |-> ws[n].version]

Init ==
    /\ \/ \E d \in BOOLEAN, t \in DriverTargets, ms \in Scopes,
            ex \in {{}} \cup {{n} : n \in Names}, ws \in DriverWorkspaces :
            Args(d, t, ms, ex, ws)
       \/ \E d \in BOOLEAN, t \in Targets, ws \in MatcherWorkspaces :
            Args(d, t, workspace_members, {}, ws)
    /\ prev = None
    /\ pc = "package"
    /\ i = 1
    /\ next = None
    /\ crate_root = None
    /\ j = 1
    /\ dep_manifest = NoManifest
    /\ k = 1
    /\ changed = FALSE
    /\ shell = <<>>
    /\ trace = <<>>

(***************************************************************************)
(* The conditions of exec.                                                 *)
(***************************************************************************)
\* the package and the member the loops are at
package == manifests[i]

\* only the packages being bumped are scanned
ScannedMembers_Scoped ==
    SelectSeq(workspace_members,
              LAMBDA n : (\E x \in DOMAIN manifests : manifests[x] = n)
                         /\ n \notin exclude)

\* for member in workspace_members.iter()
ScannedMembers == workspace_members
member == ScannedMembers[j]

\* the loop stops after the first entry
LoopDone_AfterFirst(idx, manifest) == idx > Len(manifest.deps) \/ idx > 1

\* the for loop over the member's entries has run to its end
LoopDone(idx, manifest) == idx > Len(manifest.deps)

\* the exclusion list is ignored
IsExcluded_Never(name) == FALSE

\* exclude.contains(&package.name)
IsExcluded(name) == name \in exclude

\* every answer of the resolver is taken for a new version
IsSome_Always(r) == TRUE

\* if let Some(next) = next
IsSome(r) == r.tag = "Some"

\* the dry-run flag is not consulted before the write
WritesSelf_Always == TRUE

\* the package's own manifest is never written
WritesSelf_Never == FALSE

\* if !dry_run { manifest.write()? }
WritesSelf == ~dry_run

\* the dirty flag is not consulted before the write
WritesDependent_Unchanged == ~dry_run

\* if changed && !dry_run { dep_manifest.write()? }
WritesDependent == changed /\ ~dry_run

\* the manifest is taken from what was read at the start
ReadManifest_Cached(n) == disk0[n]

\* LocalManifest::try_new(path): the file as it is on disk now
ReadManifest(n) == disk[n]

\* the error of the upgrader is dropped
IsErr_Never(r) == FALSE

\* upgrade_requirement(old_req, &next)? returns on an error
IsErr(r) == r.tag = "Err"

\* the warning is printed whatever the flag
WarnsDryRun_Always == TRUE

\* if args.dry_run { shell_warn(..) }
WarnsDryRun == dry_run

\* manifest.set_package_version(&next)
SetPackageVersion(manifest, v) == [manifest EXCEPT !.version = v]

\* an entry without a usable path is taken to point at the member itself
DepPath_OrSelf(d, dep_crate_root) ==
    IF d.path.t = "str"
    THEN LET r == Canonicalize(Join(dep_crate_root, d.path.s))
         IN IF r.tag = "Some" THEN r ELSE Canonicalize(dep_crate_root)
    ELSE Canonicalize(dep_crate_root)

\* d.get("path").and_then(as_str).and_then(|p| canonicalize(root.join(p)).ok())
DepPath(d, dep_crate_root) ==
    IF d.path.t = "str"
    THEN LET r == Canonicalize(Join(dep_crate_root, d.path.s))
         IN IF r.tag = "Some" THEN r ELSE None
    ELSE None

\* the dependency is matched by its name instead of its path
Eligible_ByName(d, dep_crate_root, root) ==
    /\ d.tbl
    /\ d.version.t # "absent"
    /\ d.name \in Names
    /\ ManifestDir(d.name) = root

\* the filter of the dependency loop: table-like, has a version key, and a
\* path that canonicalizes to the crate root
Eligible(d, dep_crate_root, root) ==
    /\ d.tbl
    /\ d.version.t # "absent"
    /\ LET dep_path == DepPath(d, dep_crate_root)
       IN dep_path.tag = "Some" /\ dep_path.val = root

\* every requirement is read as the wildcard
OldReq_Wildcard(d) == <<"*">>

\* the value is unwrapped without a default
OldReq_Unwrap(d) == d.version.s

\* dep.get("version").as_str().unwrap_or("*")
OldReq(d) == IF d.version.t = "str" THEN d.version.s ELSE <<"*">>

\* the replacement is put into every entry of the manifest
InsertVersion_All(manifest, idx, new_req) ==
    [manifest EXCEPT !.deps =
        [x \in DOMAIN @ |-> [@[x] EXCEPT !.version = Str(new_req)]]]

\* dep.insert("version", toml_edit::value(new_req))
InsertVersion(manifest, idx, new_req) ==
    [manifest EXCEPT !.deps[idx].version = Str(new_req)]

Upgrading(name, from, to) ==
    [kind |-> "Upgrading", name |-> name, from |-> from, to |-> to]
Updating(name, from, to) ==
    [kind |-> "Updating", name |-> name, from |-> from, to |-> to]
DryRunWarning == [kind |-> "warning", name |-> "", from |-> <<>>, to |-> <<>>]

\* history records
Resolved(p, r) == [ev |-> "resolve", pkg |-> p, res |-> r]
Loaded(f, p, role) == [ev |-> "load", file |-> f, pkg |-> p, role |-> role]
Written(f, p, role) == [ev |-> "write", file |-> f, pkg |-> p, role |-> role]
Rooted(p) == [ev |-> "root", pkg |-> p]
Upgraded(f, idx, p, old, r) ==
    [ev |-> "upgrade", file |-> f, idx |-> idx, pkg |-> p, old |-> old,
     res |-> r]
Failed(f, p, role, what) ==
    [ev |-> "error", file |-> f, pkg |-> p, role |-> role, what |-> what]

(***************************************************************************)
(* exec, step by step.                                                     *)
(***************************************************************************)
\* lines 115-118: the package is in the exclusion list
Excluded ==
    /\ pc = "package"
    /\ i <= Len(manifests)
    /\ IsExcluded(package)
    /\ i' = i + 1
    /\ UNCHANGED <<disk, args, pc, next, crate_root, j, dep_manifest, k,
                   changed, shell, trace, pkg_disk>>

\* lines 119-121: ask the resolver; None skips the package
Resolve ==
    /\ pc = "package"
    /\ i <= Len(manifests)
    /\ ~IsExcluded(package)
    /\ LET r == Bump(target, packages[package]) IN
        /\ trace' = Append(trace, Resolved(package, r))
        /\ pkg_disk' = disk
        /\ IF IsSome(r)
           THEN next' = r /\ pc' = "self" /\ i' = i
           ELSE next' = next /\ pc' = pc /\ i' = i + 1
    /\ UNCHANGED <<disk, args, crate_root, j, dep_manifest, k, changed, shell>>

\* lines 122-133: load the package's manifest, set its version, report,
\* write unless dry run
SelfManifest ==
    /\ pc = "self"
    /\ \E io \in {"ok", "read_err", "write_err"} :
        IF io = "read_err"
        THEN /\ pc' = "failed"
             /\ trace' = Append(trace, Failed(package, package, "self", "read"))
             /\ UNCHANGED <<disk, shell>>
        ELSE /\ shell' = Append(shell,
                    Upgrading(package, packages[package], next.val))
             /\ IF WritesSelf
                THEN IF io = "ok"
                     THEN /\ disk' = [disk EXCEPT ![package] =
                                SetPackageVersion(ReadManifest(package),
                                                  next.val)]
                          /\ trace' = trace \o
                                <<Loaded(package, package, "self"),
                                  Written(package, package, "self")>>
                          /\ pc' = "root"
                     ELSE /\ disk' = disk
                          /\ trace' = trace \o
                                <<Loaded(package, package, "self"),
                                  Failed(package, package, "self", "write")>>
                          /\ pc' = "failed"
                ELSE /\ io = "ok"
                     /\ disk' = disk
                     /\ trace' = Append(trace,
                            Loaded(package, package, "self"))
                     /\ pc' = "root"
    /\ UNCHANGED <<args, i, next, crate_root, j, dep_manifest, k, changed,
                   pkg_disk>>

\* lines 135-136: canonicalize the package's directory
CrateRoot ==
    /\ pc = "root"
    /\ \E ok \in BOOLEAN :
        LET r == Canonicalize(ManifestDir(package)) IN
        IF ok /\ r.tag = "Some"
        THEN /\ crate_root' = r
             /\ trace' = Append(trace, Rooted(package))
             /\ j' = 1
             /\ pc' = "member"
        ELSE /\ pc' = "failed"
             /\ trace' = Append(trace,
                    Failed(package, package, "self", "canonicalize"))
             /\ UNCHANGED <<crate_root, j>>
    /\ UNCHANGED <<disk, args, i, next, dep_manifest, k, changed, shell,
                   pkg_disk>>

\* lines 137-144: load the next member's manifest
LoadMember ==
    /\ pc = "member"
    /\ j <= Len(ScannedMembers)
    /\ \E ok \in BOOLEAN :
        IF ok
        THEN /\ dep_manifest' = ReadManifest(member)
             /\ changed' = FALSE
             /\ k' = 1
             /\ pc' = "dep"
             /\ trace' = Append(trace, Loaded(member, package, "dependent"))
        ELSE /\ pc' = "failed"
             /\ trace' = Append(trace,
                    Failed(member, package, "dependent", "read"))
             /\ UNCHANGED <<dep_manifest, changed, k>>
    /\ UNCHANGED <<disk, args, i, next, crate_root, j, shell, pkg_disk>>

\* lines 145-176: one entry of the member: filter, upgrade, report, insert
ScanDep ==
    /\ pc = "dep"
    /\ ~LoopDone(k, dep_manifest)
    /\ LET d == dep_manifest.deps[k] IN
        IF ~Eligible(d, ManifestDir(member), crate_root.val)
        THEN /\ k' = k + 1
             /\ UNCHANGED <<pc, dep_manifest, changed, shell, trace>>
        ELSE LET old_req == OldReq(d)
                 r == UpgradeRequirement(old_req, next.val)
             IN /\ trace' = Append(trace,
                        Upgraded(member, k, package, old_req, r))
                /\ IF IsErr(r)
                   THEN /\ pc' = "failed"
                        /\ UNCHANGED <<k, dep_manifest, changed, shell>>
                   ELSE IF r.tag = "Some"
                   THEN /\ shell' = Append(shell,
                              Updating(member, old_req, r.val))
                        /\ dep_manifest' =
                              InsertVersion(dep_manifest, k, r.val)
                        /\ changed' = TRUE
                        /\ k' = k + 1
                        /\ pc' = pc
                   ELSE /\ k' = k + 1
                        /\ UNCHANGED <<pc, dep_manifest, changed, shell>>
    /\ UNCHANGED <<disk, args, i, next, crate_root, j, pkg_disk>>

\* lines 177-180: write the member if it changed, unless dry run
WriteMember ==
    /\ pc = "dep"
    /\ LoopDone(k, dep_manifest)
    /\ IF WritesDependent
       THEN \E ok \in BOOLEAN :
            IF ok
            THEN /\ disk' = [disk EXCEPT ![member] = dep_manifest]
                 /\ trace' = Append(trace,
                        Written(member, package, "dependent"))
                 /\ j' = j + 1
                 /\ pc' = "member"
            ELSE /\ pc' = "failed"
                 /\ trace' = Append(trace,
                        Failed(member, package, "dependent", "write"))
                 /\ UNCHANGED <<disk, j>>
       ELSE /\ j' = j + 1
            /\ pc' = "member"
            /\ UNCHANGED <<disk, trace>>
    /\ UNCHANGED <<args, i, next, crate_root, dep_manifest, k, changed,
                   shell, pkg_disk>>

\* lines 180-182: all members scanned, on to the next package
EndMembers ==
    /\ pc = "member"
    /\ j > Len(ScannedMembers)
    /\ i' = i + 1
    /\ pc' = "package"
    /\ UNCHANGED <<disk, args, next, crate_root, j, dep_manifest, k,
                   changed, shell, trace, pkg_disk>>

\* lines 184-188: the dry-run warning, then Ok(())
Finish ==
    /\ pc = "package"
    /\ i > Len(manifests)
    /\ shell' = IF WarnsDryRun THEN Append(shell, DryRunWarning) ELSE shell
    /\ pc' = "done"
    /\ UNCHANGED <<disk, args, i, next, crate_root, j, dep_manifest, k,
                   changed, trace, pkg_disk>>

Next ==
    \/ Excluded
    \/ Resolve
    \/ SelfManifest
    \/ CrateRoot
    \/ LoadMember
    \/ ScanDep
    \/ WriteMember
    \/ EndMembers
    \/ Finish

Spec == Init /\ [][Next]_vars

(***************************************************************************)
(* Two invocations on the same workspace.                                  *)
(***************************************************************************)
\* after a real run that returned Ok: the disk is put back as it was and
\* the same command is run with --dry-run
DryRunTwin ==
    /\ pc = "done"
    /\ prev = None
    /\ ~dry_run
    /\ prev' = [tag |-> "Some", dry_run |-> dry_run, shell |-> shell,
                trace |-> trace, disk |-> disk]
    /\ dry_run' = TRUE
    /\ disk' = disk0
    /\ pkg_disk' = disk0
    /\ pc' = "package"
    /\ i' = 1
    /\ next' = None
    /\ crate_root' = None
    /\ j' = 1
    /\ dep_manifest' = NoManifest
    /\ k' = 1
    /\ changed' = FALSE
    /\ shell' = <<>>
    /\ trace' = <<>>
    /\ UNCHANGED <<target, manifests, exclude, packages, disk0>>

NextTwin ==
    \/ Next
    \/ DryRunTwin

SpecTwin == Init /\ [][NextTwin]_vars

\* after a real run that returned Ok: the same command is run again on the
\* disk the first run left; cargo metadata is read anew
RunAgain ==
    /\ pc = "done"
    /\ prev = None
    /\ ~dry_run
    /\ prev' = [tag |-> "Some", dry_run |-> dry_run, shell |-> shell,
                trace |-> trace, disk |-> disk]
    /\ packages' = [n \in Names |-> disk[n].version]
    /\ disk0' = disk
    /\ pkg_disk' = disk
    /\ pc' = "package"
    /\ i' = 1
    /\ next' = None
    /\ crate_root' = None
    /\ j' = 1
    /\ dep_manifest' = NoManifest
    /\ k' = 1
    /\ changed' = FALSE
    /\ shell' = <<>>
    /\ trace' = <<>>
    /\ UNCHANGED <<disk, dry_run, target, manifests, exclude>>

NextAgain ==
    \/ Next
    \/ RunAgain

SpecAgain == Init /\ [][NextAgain]_vars

\* after a real run that returned Ok: the disk is put back as it was and
\* the same command is run with the packages in another order
RunPermuted ==
    /\ pc = "done"
    /\ prev = None
    /\ ~dry_run
    /\ prev' = [tag |-> "Some", dry_run |-> dry_run, shell |-> shell,
                trace |-> trace, disk |-> disk]
    /\ manifests' \in Perms({manifests[x] : x \in DOMAIN manifests})
                         \ {manifests}
    /\ disk' = disk0
    /\ pkg_disk' = disk0
    /\ pc' = "package"
    /\ i' = 1
    /\ next' = None
    /\ crate_root' = None
    /\ j' = 1
    /\ dep_manifest' = NoManifest
    /\ k' = 1
    /\ changed' = FALSE
    /\ shell' = <<>>
    /\ trace' = <<>>
    /\ UNCHANGED <<dry_run, target, exclude, packages, disk0>>

NextPerm ==
    \/ Next
    \/ RunPermuted

SpecPerm == Init /\ [][NextPerm]_vars

(***************************************************************************)
(* What the claims speak of.                                               *)
(***************************************************************************)
InScope(n) == \E x \in DOMAIN manifests : manifests[x] = n

\* entry d of member m is table-like, has a version key and a string path
\* that, joined to m's directory and canonicalized, is p's directory
PointsAt(d, m, p) ==
    /\ d.tbl
    /\ d.version.t # "absent"
    /\ d.path.t = "str"
    /\ LET there == Canonicalize(Join(ManifestDir(m), d.path.s))
           here == Canonicalize(ManifestDir(p))
       IN there.tag = "Some" /\ here.tag = "Some" /\ there.val = here.val

\* positions of the history
UpgraderCalls(m, idx, p) ==
    { x \in DOMAIN trace : /\ trace[x].ev = "upgrade"
                           /\ trace[x].file = m
                           /\ trace[x].idx = idx
                           /\ trace[x].pkg = p }
Replacements(m, p) ==
    { x \in DOMAIN trace : /\ trace[x].ev = "upgrade"
                           /\ trace[x].file = m
                           /\ trace[x].pkg = p
                           /\ trace[x].res.tag = "Some" }
DependentWrites(m) ==
    { x \in DOMAIN trace : /\ trace[x].ev = "write"
                           /\ trace[x].role = "dependent"
                           /\ trace[x].file = m }
PassWrites(m, p) == { x \in DependentWrites(m) : trace[x].pkg = p }
WriteFailed(m, p) ==
    \E x \in DOMAIN trace : trace[x] = Failed(m, p, "dependent", "write")
ResolvedNone(p) ==
    \E x \in DOMAIN trace : /\ trace[x].ev = "resolve"
                            /\ trace[x].pkg = p
                            /\ trace[x].res.tag = "None"
Bumped(p) == \E x \in DOMAIN trace : trace[x] = Rooted(p)
NewVersion(p) ==
    LET x == CHOOSE x \in DOMAIN trace :
                trace[x].ev = "resolve" /\ trace[x].pkg = p
    IN trace[x].res.val
Said(kind) == { x \in DOMAIN shell : shell[x].kind = kind }

\* the pass of package manifests[x] over member workspace_members[y] has
\* run to its end
PassComplete(x, y) ==
    \/ x < i
    \/ x = i /\ pc \in {"member", "dep", "failed"} /\ y < j

(***************************************************************************)
(* C1.  In a dry run no manifest is ever written: in every reachable       *)
(* state, also of a run that aborts, every manifest on disk has the        *)
(* content it had at the start of the invocation.                          *)
(***************************************************************************)
C1_DryRunNeverWrites ==
    dry_run => /\ disk = disk0
               /\ \A x \in DOMAIN trace : trace[x].ev # "write"

\* a dry run that reported a version bump and a requirement upgrade and
\* came to its end
C1_Witness ==
    /\ dry_run
    /\ pc = "done"
    /\ Said("Upgrading") # {}
    /\ Said("Updating") # {}

(***************************************************************************)
(* C2.  From the same disk and with the same arguments, a real run and a   *)
(* dry run that both return Ok emit the same sequence of "Upgrading" and   *)
(* "Updating" messages, although the real run re-reads manifests that it   *)
(* has rewritten.                                                          *)
(***************************************************************************)
StatusMessages(sh) ==
    SelectSeq(sh, LAMBDA msg : msg.kind \in {"Upgrading", "Updating"})

C2_SameMessages ==
    (prev.tag = "Some" /\ pc = "done") =>
       /\ dry_run /\ ~prev.dry_run
       /\ StatusMessages(shell) = StatusMessages(prev.shell)

\* both runs done; the real run wrote one manifest twice, so that it
\* re-read content it had rewritten, and reported a requirement upgrade
C2_Witness ==
    /\ prev.tag = "Some"
    /\ pc = "done"
    /\ \E x \in DOMAIN shell : shell[x].kind = "Updating"
    /\ \E m \in Names :
          Cardinality({ x \in DOMAIN prev.trace :
                          /\ prev.trace[x].ev = "write"
                          /\ prev.trace[x].file = m }) >= 2

(***************************************************************************)
(* C3.  An entry of a member is passed to the requirement upgrader for     *)
(* the bumped package P if and only if it is table-like, has a version     *)
(* key, and has a string path that canonicalizes to P's directory; the     *)
(* entry's name plays no role.                                             *)
(***************************************************************************)
C3_SelectedIffPathResolves ==
    /\ \A x \in DOMAIN trace :
          trace[x].ev = "upgrade" =>
             PointsAt(disk0[trace[x].file].deps[trace[x].idx],
                      trace[x].file, trace[x].pkg)
    /\ pc = "dep" =>
          \A idx \in 1..(k - 1) :
             PointsAt(dep_manifest.deps[idx], member, package)
                => UpgraderCalls(member, idx, package) # {}

\* a scanned member with an entry not named like the package that was
\* selected, and an entry named like the package that was not
C3_Witness ==
    /\ pc = "dep"
    /\ LoopDone(k, dep_manifest)
    /\ \E x, y \in DOMAIN dep_manifest.deps :
          /\ dep_manifest.deps[x].name # package
          /\ UpgraderCalls(member, x, package) # {}
          /\ dep_manifest.deps[y].name = package
          /\ UpgraderCalls(member, y, package) = {}

(***************************************************************************)
(* C4.  As claimed: over the whole run, the number of dependent-pass       *)
(* writes to any single member manifest is at most 1.                      *)
(***************************************************************************)
C4_Original ==
    \A m \in Names : Cardinality(DependentWrites(m)) <= 1

(***************************************************************************)
(* C4, amended.  A dependent manifest is written at most once per pass     *)
(* (one bumped package, one member), and that write comes after every      *)
(* eligible entry of the member has been through the upgrader.             *)
(***************************************************************************)
C4_OncePerPass ==
    \A m \in Names :
       /\ \A p \in Names : Cardinality(PassWrites(m, p)) <= 1
       /\ \A w \in DependentWrites(m) :
             \A idx \in DOMAIN disk0[m].deps :
                PointsAt(disk0[m].deps[idx], m, trace[w].pkg) =>
                   /\ UpgraderCalls(m, idx, trace[w].pkg) # {}
                   /\ \A u \in UpgraderCalls(m, idx, trace[w].pkg) : u < w

\* a member written as a dependent of two bumped packages in one run
C4_Witness ==
    /\ pc = "done"
    /\ \E m \in Names : Cardinality(DependentWrites(m)) = 2

(***************************************************************************)
(* C5.  As claimed: when the invocation aborts while package P is being    *)
(* processed, no manifest differs from its content at the moment P's       *)
(* processing began.                                                       *)
(***************************************************************************)
C5_Original ==
    pc = "failed" => disk = pkg_disk

(***************************************************************************)
(* C6.  As claimed: the manifest of a crate named in the exclusion list    *)
(* is not written; at every moment its content is its content at the       *)
(* start.                                                                  *)
(***************************************************************************)
C6_Original ==
    \A n \in exclude : disk[n] = disk0[n]

(***************************************************************************)
(* C7.  For an excluded package the resolver is never invoked, its own     *)
(* version field never changes, no "Upgrading" message names it, and its   *)
(* directory is never the crate root of a dependent scan.                  *)
(***************************************************************************)
C7_ExcludedNeverBumped ==
    \A n \in exclude :
       /\ \A x \in DOMAIN trace : trace[x].pkg # n
       /\ disk[n].version = disk0[n].version
       /\ \A x \in Said("Upgrading") : shell[x].name # n

\* a finished real run that bumped something, with an excluded package
\* in scope that some member depends on by path
C7_Witness ==
    /\ pc = "done"
    /\ ~dry_run
    /\ Said("Upgrading") # {}
    /\ \E n \in exclude :
          /\ InScope(n)
          /\ \E m \in Names : \E idx \in DOMAIN disk0[m].deps :
                PointsAt(disk0[m].deps[idx], m, n)

(***************************************************************************)
(* C8.  When the resolver answers None for a package, nothing is done      *)
(* for it: no manifest is loaded or written on its behalf, no message      *)
(* names it, and the run goes on; if the resolver answers None for every   *)
(* package, no manifest is touched at all.                                 *)
(***************************************************************************)
C8_NoneSkipsPackage ==
    /\ \A p \in Names :
          ResolvedNone(p) =>
             /\ \A x \in DOMAIN trace :
                   trace[x].pkg = p => trace[x].ev = "resolve"
             /\ \A x \in Said("Upgrading") : shell[x].name # p
    /\ (\A x \in DOMAIN trace :
           trace[x].ev = "resolve" => trace[x].res.tag = "None")
          => /\ disk = disk0
             /\ \A x \in DOMAIN trace : trace[x].ev = "resolve"
             /\ Said("Upgrading") = {} /\ Said("Updating") = {}
    /\ (trace # <<>> /\ trace[Len(trace)].ev = "resolve"
                     /\ trace[Len(trace)].res.tag = "None")
          => pc \in {"package", "done"}

\* a finished real run in which the resolver answered None for a package
\* that a member depends on by path, while another package was bumped
C8_Witness ==
    /\ pc = "done"
    /\ ~dry_run
    /\ \E p, q \in Names :
          /\ ResolvedNone(p)
          /\ Bumped(q)
          /\ \E m \in Names : \E idx \in DOMAIN disk0[m].deps :
                PointsAt(disk0[m].deps[idx], m, p)

C11_RerunChangesNothing ==
    (prev.tag = "Some" /\ target.kind = "Absolute") =>
       /\ disk = disk0
       /\ \A x \in DOMAIN trace : trace[x].ev # "write"
       /\ Said("Upgrading") = {}
       /\ Said("Updating") = {}

\* the second run is over, after a first run that wrote a package's own
\* manifest and a dependent's
C11_Witness ==
    /\ prev.tag = "Some"
    /\ target.kind = "Absolute"
    /\ pc = "done"
    /\ \E x, y \in DOMAIN prev.trace :
          /\ prev.trace[x].ev = "write" /\ prev.trace[x].role = "self"
          /\ prev.trace[y].ev = "write" /\ prev.trace[y].role = "dependent"

(***************************************************************************)
(* C12.  Writes change only version data: the package version of a bumped  *)
(* package, and the `version` value of eligible entries for which the      *)
(* upgrader returned a replacement.  Every other entry, and every name,    *)
(* path and table shape, is on disk what it was at the start.              *)
(***************************************************************************)
C12_OnlyVersionsChange ==
    \A m \in Names :
       /\ Len(disk[m].deps) = Len(disk0[m].deps)
       /\ disk[m].version # disk0[m].version =>
             /\ \E x \in DOMAIN trace : trace[x] = Written(m, m, "self")
             /\ disk[m].version = NewVersion(m)
       /\ \A idx \in DOMAIN disk0[m].deps :
             LET d == disk[m].deps[idx]
                 d0 == disk0[m].deps[idx]
             IN /\ d.name = d0.name
                /\ d.tbl = d0.tbl
                /\ d.path = d0.path
                /\ d.version # d0.version =>
                      \E p \in Names :
                         /\ PointsAt(d0, m, p)
                         /\ \E x \in UpgraderCalls(m, idx, p) :
                               /\ trace[x].res.tag = "Some"
                               /\ d.version = Str(trace[x].res.val)

\* a finished real run that bumped a package and rewrote one entry of a
\* member while another entry of that member kept its requirement
C12_Witness ==
    /\ pc = "done"
    /\ ~dry_run
    /\ \E m \in Names : disk[m].version # disk0[m].version
    /\ \E m \in Names : \E x, y \in DOMAIN disk0[m].deps :
          /\ disk[m].deps[x].version # disk0[m].deps[x].version
          /\ disk[m].deps[y].version = disk0[m].deps[y].version
          /\ disk0[m].deps[y].version.t = "str"

(***************************************************************************)
(* C13.  A dry run that meets no fatal condition emits the dry-run         *)
(* warning exactly once, as its last message, after every package in       *)
(* scope has been dealt with, and returns Ok; a run fails only on a fatal  *)
(* condition, never because of the flag.  A real run never emits the       *)
(* warning.                                                                *)
(***************************************************************************)
C13_DryRunWarning ==
    /\ Cardinality(Said("warning")) = IF dry_run /\ pc = "done" THEN 1 ELSE 0
    /\ (dry_run /\ pc = "done") =>
          /\ shell[Len(shell)] = DryRunWarning
          /\ i > Len(manifests)
    /\ pc = "failed" =>
          /\ trace # <<>>
          /\ LET e == trace[Len(trace)]
             IN \/ e.ev = "error"
                \/ e.ev = "upgrade" /\ e.res.tag = "Err"

\* a dry run that reported a bump and an upgrade and ended with the warning
C13_Witness ==
    /\ dry_run
    /\ pc = "done"
    /\ Said("Upgrading") # {}
    /\ Said("Updating") # {}
    /\ Said("warning") # {}
    /\ shell[Len(shell)] = DryRunWarning

ScopeIndex(p) == CHOOSE x \in DOMAIN manifests : manifests[x] = p

C15_InOrder ==
    /\ \A x \in 1..(Len(trace) - 1) :
          ScopeIndex(trace[x].pkg) <= ScopeIndex(trace[x + 1].pkg)
    /\ \A c \in DOMAIN trace :
          trace[c].ev = "root" =>
             LET p == trace[c].pkg IN
             /\ \E s \in 1..(c - 1) :
                   /\ trace[s] = Loaded(p, p, "self")
                   /\ \E r \in 1..(s - 1) :
                         trace[r].ev = "resolve" /\ trace[r].pkg = p
                   /\ ~dry_run => \E w \in (s + 1)..(c - 1) :
                                     trace[w] = Written(p, p, "self")
             /\ \E msg \in Said("Upgrading") : shell[msg].name = p
    /\ \A y \in DOMAIN trace :
          (trace[y].ev = "load" /\ trace[y].role = "dependent") =>
             \E c \in 1..(y - 1) :
                trace[c].ev = "root" /\ trace[c].pkg = trace[y].pkg
    /\ pc \in {"member", "dep"} =>
          /\ ~dry_run => disk[package].version = next.val
          /\ \E msg \in Said("Upgrading") :
                shell[msg] = Upgrading(package, packages[package], next.val)
    /\ \A w \in DOMAIN trace :
          (trace[w].ev = "write" /\ trace[w].role = "dependent") =>
          LET m == trace[w].file
              p == trace[w].pkg
          IN
          /\ \A idx \in DOMAIN disk0[m].deps :
                PointsAt(disk0[m].deps[idx], m, p) =>
                   \E u \in UpgraderCalls(m, idx, p) : u < w
          /\ \A u \in Replacements(m, p) :
                /\ u < w
                /\ disk[m].deps[trace[u].idx].version = Str(trace[u].res.val)

\* a finished real run over the whole workspace that bumped two packages
\* and wrote a member with two replacements made in one pass
C15_Witness ==
    /\ pc = "done"
    /\ ~dry_run
    /\ Len(manifests) = 3
    /\ \E p, q \in Names : p # q /\ Bumped(p) /\ Bumped(q)
    /\ \E m, p \in Names :
          /\ PassWrites(m, p) # {}
          /\ Cardinality(Replacements(m, p)) >= 2

(***************************************************************************)
(* C16.  A malformed requirement on an eligible entry is a hard error, in  *)
(* a real run and in a dry run alike: the upgrader's error is the last     *)
(* thing the invocation does; the member's manifest is not written in that *)
(* pass and its entries on disk are as they were when the pass began, also *)
(* when earlier entries were upgraded in memory; no warning is printed.    *)
(* A malformed requirement on an entry that is not eligible never reaches  *)
(* the upgrader, and an invocation fails on a requirement only at an       *)
(* eligible entry.                                                         *)
(***************************************************************************)
Malformed(d) == d.version.t = "str" /\ ParseReq(d.version.s).tag = "Err"

UpgraderErrors ==
    { x \in DOMAIN trace : trace[x].ev = "upgrade" /\ trace[x].res.tag = "Err" }

C16_MalformedIsFatal ==
    /\ \A u \in DOMAIN trace :
          (trace[u].ev = "upgrade" /\ trace[u].res.tag = "Err") =>
             LET m == trace[u].file
                 p == trace[u].pkg
             IN /\ ParseReq(trace[u].old).tag = "Err"
                /\ u = Len(trace)
                /\ pc = "failed"
                /\ PassWrites(m, p) = {}
                /\ ~WriteFailed(m, p)
                /\ disk[m].deps = pkg_disk[m].deps
                /\ Said("warning") = {}
                /\ Malformed(disk0[m].deps[trace[u].idx])
                /\ PointsAt(disk0[m].deps[trace[u].idx], m, p)
    /\ \A m \in Names : \A idx \in DOMAIN disk0[m].deps :
          Malformed(disk0[m].deps[idx]) =>
             \A p \in Names :
                ~PointsAt(disk0[m].deps[idx], m, p)
                   => UpgraderCalls(m, idx, p) = {}
    /\ pc = "dep" =>
          \A idx \in 1..(k - 1) :
             ~(/\ Malformed(dep_manifest.deps[idx])
               /\ PointsAt(dep_manifest.deps[idx], member, package))
    /\ dry_run => (UpgraderErrors # {} => disk = disk0)

\* a real run that stopped at a malformed requirement after an earlier
\* entry of the same member had been upgraded in memory
C16_Witness ==
    /\ pc = "failed"
    /\ ~dry_run
    /\ UpgraderErrors # {}
    /\ \E u \in UpgraderErrors :
          Replacements(trace[u].file, trace[u].pkg) # {}

(***************************************************************************)
(* C17.  Path resolution fails in two different ways.  A dependency entry  *)
(* with no path, a path that is not a string, or a path that does not      *)
(* canonicalize is not a match: it never reaches the upgrader, and no      *)
(* invocation fails because of it.  The package's own directory failing to *)
(* canonicalize ends the invocation: no member is loaded for that package, *)
(* and in a real run the package's own manifest is already written.        *)
(***************************************************************************)
NoPath(d, m) ==
    \/ d.path.t # "str"
    \/ Canonicalize(Join(ManifestDir(m), d.path.s)).tag # "Some"

RootFailed(p) == Failed(p, p, "self", "canonicalize")

C17_PathFailures ==
    /\ \A u \in DOMAIN trace :
          trace[u].ev = "upgrade" =>
             ~NoPath(disk0[trace[u].file].deps[trace[u].idx], trace[u].file)
    /\ \A x \in DOMAIN trace :
          trace[x].ev = "error" =>
             \/ trace[x].what \in {"read", "write"}
             \/ trace[x] = RootFailed(trace[x].pkg)
    /\ pc = "failed" =>
          /\ trace # <<>>
          /\ \/ trace[Len(trace)].ev = "error"
             \/ Len(trace) \in UpgraderErrors
    /\ \A x \in DOMAIN trace :
          (trace[x].ev = "error" /\ trace[x].what = "canonicalize") =>
             LET p == trace[x].pkg IN
             /\ x = Len(trace)
             /\ pc = "failed"
             /\ ~Bumped(p)
             /\ \A y \in DOMAIN trace :
                   trace[y].pkg = p =>
                      /\ trace[y].ev # "upgrade"
                      /\ trace[y].ev \in {"load", "write"} =>
                            trace[y].role = "self"
             /\ \E s \in 1..(x - 1) : trace[s] = Loaded(p, p, "self")
             /\ \E msg \in Said("Upgrading") : shell[msg].name = p
             /\ Said("warning") = {}
             /\ ~dry_run =>
                   /\ trace[x - 1] = Written(p, p, "self")
                   /\ disk[p].version = NewVersion(p)
             /\ dry_run => disk = disk0

\* a real run that scanned a member holding an entry without a usable path
\* for one package, and then stopped at the directory of a later package
\* whose manifest it had already written
C17_Witness ==
    /\ pc = "failed"
    /\ ~dry_run
    /\ \E p, q \in Names :
          /\ p # q
          /\ trace[Len(trace)] = RootFailed(p)
          /\ disk[p].version # disk0[p].version
          /\ Bumped(q)
          /\ \E m \in Names : \E idx \in DOMAIN disk0[m].deps :
                /\ NoPath(disk0[m].deps[idx], m)
                /\ \E y \in DOMAIN trace :
                      trace[y] = Loaded(m, q, "dependent")

(***************************************************************************)
(* C18.  No update is lost when a manifest is written more than once in a  *)
(* real run.  At every moment, a package whose own manifest was written    *)
(* has its new version on disk, and a requirement replaced in a pass that  *)
(* was written is on disk, whatever was written afterwards.  After a run   *)
(* that returned Ok, every bumped package has its new version and every    *)
(* eligible entry on a bumped package holds what the upgrader gives for    *)
(* it, also in a manifest written as a dependent of one package and as     *)
(* the own manifest of another, or as a dependent of several packages.     *)
(***************************************************************************)
SelfWrites(p) == { x \in DOMAIN trace : trace[x] = Written(p, p, "self") }

C18_NoLostUpdate ==
    /\ \A w \in DOMAIN trace :
          trace[w].ev = "write" =>
             IF trace[w].role = "self"
             THEN disk[trace[w].pkg].version = NewVersion(trace[w].pkg)
             ELSE \A u \in 1..(w - 1) :
                     (/\ trace[u].ev = "upgrade"
                      /\ trace[u].file = trace[w].file
                      /\ trace[u].pkg = trace[w].pkg
                      /\ trace[u].res.tag = "Some") =>
                        disk[trace[w].file].deps[trace[u].idx].version
                           = Str(trace[u].res.val)
    /\ (pc = "done" /\ ~dry_run) =>
          \A p \in Names : Bumped(p) =>
             /\ disk[p].version = Bump(target, packages[p]).val
             /\ \A m \in Names : \A idx \in DOMAIN disk0[m].deps :
                   LET d0 == disk0[m].deps[idx]
                       r == UpgradeRequirement(OldReq(d0), disk[p].version)
                   IN PointsAt(d0, m, p) =>
                         disk[m].deps[idx].version =
                            IF r.tag = "Some" THEN Str(r.val) ELSE d0.version

\* a finished real run in which one manifest was written as a dependent of
\* an earlier package, then as its package's own manifest, then as a
\* dependent of a later package
C18_Witness ==
    /\ pc = "done"
    /\ ~dry_run
    /\ \E m, p, q \in Names :
          /\ InScope(m) /\ InScope(p) /\ InScope(q)
          /\ ScopeIndex(p) < ScopeIndex(m)
          /\ ScopeIndex(m) < ScopeIndex(q)
          /\ PassWrites(m, p) # {}
          /\ SelfWrites(m) # {}
          /\ PassWrites(m, q) # {}

(***************************************************************************)
(* C19.  The result of a real run that returns Ok does not depend on the   *)
(* order of the packages: run from the same disk and the same metadata     *)
(* with the package list in another order, the invocation leaves every     *)
(* manifest with the same version and the same requirements.               *)
(***************************************************************************)
C19_OrderIndependent ==
    (pc = "done" /\ prev.tag = "Some" /\ ~prev.dry_run /\ ~dry_run) =>
       \A n \in Names :
          /\ disk[n].version = prev.disk[n].version
          /\ disk[n].deps = prev.disk[n].deps

\* two finished real runs in different orders, each of which bumped two
\* packages and wrote a manifest both as a package's own and as a dependent
C19_Witness ==
    /\ pc = "done"
    /\ prev.tag = "Some"
    /\ ~dry_run
    /\ \E x \in DOMAIN trace :
          /\ trace[x].ev = "resolve"
          /\ prev.trace[x].ev = "resolve"
          /\ trace[x].pkg # prev.trace[x].pkg
    /\ \E m, p \in Names :
          /\ m # p
          /\ SelfWrites(m) # {}
          /\ PassWrites(m, p) # {}
          /\ disk[m] # disk0[m]

(***************************************************************************)
(* C20.  An eligible entry whose version is not a string goes to the       *)
(* upgrader as the wildcard "*": the upgrader answers None, the entry is   *)
(* not rewritten, the manifest is not marked changed because of it, and    *)
(* the invocation does not fail on it, whatever the new version is.        *)
(***************************************************************************)
NonString(d) == d.version.t = "other"

C20_NonStringIsWildcard ==
    /\ \A u \in DOMAIN trace :
          (trace[u].ev = "upgrade"
             /\ NonString(disk0[trace[u].file].deps[trace[u].idx])) =>
                /\ trace[u].old = <<"*">>
                /\ trace[u].res = None
    /\ \A m \in Names : \A idx \in DOMAIN disk0[m].deps :
          NonString(disk0[m].deps[idx]) =>
             /\ disk[m].deps[idx] = disk0[m].deps[idx]
             /\ \A p \in Names :
                   (PointsAt(disk0[m].deps[idx], m, p)
                      /\ Bumped(p)
                      /\ \E y \in 1..Len(workspace_members) :
                            /\ workspace_members[y] = m
                            /\ PassComplete(ScopeIndex(p), y))
                         => \E u \in UpgraderCalls(m, idx, p) :
                               trace[u].res = None
    /\ pc = "dep" =>
          /\ \A idx \in 1..(k - 1) :
                NonString(dep_manifest.deps[idx]) =>
                   dep_manifest.deps[idx] = disk[member].deps[idx]
          /\ changed =>
                \E u \in Replacements(member, package) :
                   ~NonString(disk0[member].deps[trace[u].idx])

\* a finished real run that passed an eligible entry with a non-string
\* version to the upgrader and left its manifest unwritten
C20_Witness ==
    /\ pc = "done"
    /\ ~dry_run
    /\ \E u \in DOMAIN trace :
          /\ trace[u].ev = "upgrade"
          /\ NonString(disk0[trace[u].file].deps[trace[u].idx])
          /\ DependentWrites(trace[u].file) = {}

====
